---- MODULE Spec2Model ----
(***************************************************************************)
(* CheckSessionService (lib/iframe/check-session.service.ts): the OpenID   *)
(* Connect check-session iframe monitor.  One injectable service instance, *)
(* its private fields, the hidden iframe it creates, the window message    *)
(* listener it registers, the timers it sets and the wall clock.           *)
(*                                                                         *)
(* JavaScript strings that are inspected (URLs, origins, probe payloads)   *)
(* are sequences of tokens, so that startsWith, URL.origin and string      *)
(* concatenation are computed and not assumed.  A JavaScript value that    *)
(* reaches messageHandler is a record with a "type" field: a string or a   *)
(* MessageEvent.                                                           *)
(***************************************************************************)
EXTENDS Integers, Sequences, FiniteSets, TLC

\* ------------------------------------------------------------- bounds
\* heartbeat intervals the clock advances before any refresh interval
MaxAdvances == 3

\* whole refresh intervals the clock advances
MaxLongWaits == 1

\* ------------------------------------------------------------- constants
heartBeatInterval == 3000
iframeRefreshInterval == 60000

\* Date.now() when the service is constructed: any value with
\* lastIFrameRefresh (0) + iframeRefreshInterval <= Date.now()
StartNow == iframeRefreshInterval

\* ------------------------------------------------------------- values
\* the configuration identifiers (tenants) the host application configured
Tenants == {"t1", "t2"}

\* a clientId that is no configuration identifier
OtherClientId == "abc"

NoHandle == 0

\* the string a JavaScript undefined is converted to
UndefinedStr == <<"undefined">>

\* the tokens that start the path of a URL
PathTokens == {"/check"}

SessionUrl(k) == IF k = "t1" THEN <<"https://idp", ".example", "/check">>
                             ELSE <<"https://login", ".example", "/check">>

SessionToken(k) == IF k = "t1" THEN "state1" ELSE "state2"

\* origins a MessageEvent may carry
Origins == { <<"https://idp", ".example">>, <<"https://idp">>, <<"https://evil">> }

\* windows a MessageEvent may come from: the iframe's contentWindow or another
Sources == {"contentWindow", "otherWindow"}

Payloads == {"changed", "error", "unchanged"}

MessageEvents == [type : {"event"}, origin : Origins, source : Sources, data : Payloads]

JsString(s) == [type |-> "string", str |-> s]

\* ------------------------------------------------------------- strings
\* String.prototype.startsWith on token strings
StartsWith(s, p) == /\ Len(p) <= Len(s)
                    /\ \A i \in 1..Len(p) : s[i] = p[i]

\* new URL(u).origin: scheme and authority, everything before the path
RECURSIVE UrlOrigin(_)
UrlOrigin(u) == IF u = <<>> \/ Head(u) \in PathTokens THEN <<>>
                ELSE <<Head(u)>> \o UrlOrigin(Tail(u))

VARIABLES
  checkSessionReceived,          \* field, line 17
  scheduledHeartBeatRunning,     \* field, line 18: NoHandle or a timer id
  lastIFrameRefresh,             \* field, line 19
  outstandingMessages,           \* field, line 20
  checkSessionChangedInternal,   \* field, line 23: value of the BehaviorSubject
  iframe,                        \* the hidden iframe of the document
  listeners,                     \* window 'message' listeners, by bound argument
  timers,                        \* pending setTimeout callbacks
  now,                           \* Date.now()
  config,                        \* ConfigurationProvider
  storage,                       \* StoragePersistenceService
  running,                       \* tenants started and not stopped since
  hist,                          \* ticks and inbound messages since the last fresh start
  out                            \* what the last step did to the outside

vars == <<checkSessionReceived, scheduledHeartBeatRunning, lastIFrameRefresh,
          outstandingMessages, checkSessionChangedInternal, iframe, listeners,
          timers, now, config, storage, running, hist, out>>

\* ------------------------------------------------------------- collaborators
\* ConfigurationProvider.getOpenIDConfiguration(configId).clientId
ClientIdOf(t) == config[t].clientId

\* isCheckSessionConfigured(configId), lines 38-41
isCheckSessionConfigured(t) == config[t].startCheckSession

\* StoragePersistenceService.read('authWellKnownEndPoints', k): "absent" when
\* nothing is stored under k, "noUrl" for endpoints without checkSessionIframe
ReadWellKnown(k) == IF k \in DOMAIN storage THEN storage[k].wellKnown ELSE "absent"

\* authWellKnownEndPoints?.checkSessionIframe, <<>> when there is none
CheckSessionIframeOf(k) == IF ReadWellKnown(k) = "url" THEN SessionUrl(k) ELSE <<>>

\* StoragePersistenceService.read('session_state', k), "" when there is none
ReadSessionState(k) ==
  IF k \in DOMAIN storage /\ storage[k].session THEN SessionToken(k) ELSE ""

\* serverStateChanged(configId), lines 61-64
serverStateChanged(t) == config[t].startCheckSession /\ checkSessionReceived

\* ------------------------------------------------------------- the service state
\* the fields and objects the handlers read and write, as one record
Current ==
  [ received    |-> checkSessionReceived,
    handle      |-> scheduledHeartBeatRunning,
    lastRefresh |-> lastIFrameRefresh,
    outstanding |-> outstandingMessages,
    published   |-> checkSessionChangedInternal,
    iframe      |-> iframe,
    listeners   |-> listeners,
    timers      |-> timers ]

\* what a step did to the outside: messages posted, log entries, events,
\* values pushed to the BehaviorSubject, navigations; data is the payload of
\* the message the step handled and sourced whether that message was validly
\* sourced
Quiet(op, arg) ==
  [ op |-> op, arg |-> arg, data |-> "", sourced |-> FALSE,
    begun |-> FALSE, ticked |-> FALSE, scheduled |-> FALSE,
    probe |-> <<>>, target |-> <<>>,
    unreachable |-> FALSE, nexts |-> <<>>, events |-> <<>>,
    navigated |-> FALSE, created |-> FALSE ]

\* setTimeout returns an id no pending timer and no held handle has
FreshTimer(s) ==
  CHOOSE i \in 1..(Cardinality(s.timers) + 2) :
    /\ i # s.handle
    /\ \A t \in s.timers : t.id # i

\* the subscribe callback of pollServerSessionRecur, lines 105-140
Tick(s, e, loop) ==
  LET existingIframe == s.iframe.exists
      sessionState   == ReadSessionState(loop.configId)
      url            == CheckSessionIframeOf(loop.configId)
      usable         == existingIframe /\ loop.clientId # ""
      send           == usable /\ sessionState # "" /\ url # <<>>
      outst          == IF send THEN s.outstanding + 1 ELSE s.outstanding
      id             == FreshTimer(s)
  IN [ s |-> [s EXCEPT !.outstanding = outst,
                       !.published = IF usable /\ ~send THEN TRUE ELSE @,
                       !.handle = id,
                       !.timers = @ \cup {[id |-> id, due |-> now + heartBeatInterval,
                                           loop |-> loop]}],
       e |-> [e EXCEPT !.ticked = TRUE,
                       !.probe = IF send THEN <<loop.clientId, " ", sessionState>> ELSE <<>>,
                       !.target = IF send THEN UrlOrigin(url) ELSE <<>>,
                       !.nexts = IF usable /\ ~send THEN Append(@, TRUE) ELSE @,
                       !.unreachable = (outst > 3),
                       !.scheduled = TRUE] ]

\* a getOrCreateIframe that binds the listener on every call
getOrCreateIframeBindingAgain(s, configId) ==
  [s EXCEPT !.iframe.exists = TRUE, !.listeners = Append(@, configId)]

\* getOrCreateIframe(configId), lines 176-186, with bindMessageEventToIframe,
\* lines 171-174: the listener is messageHandler bound to (this, configId)
getOrCreateIframe(s, configId) ==
  IF ~s.iframe.exists
  THEN [s EXCEPT !.iframe.exists = TRUE, !.listeners = Append(@, configId)]
  ELSE s

\* pollServerSessionRecur, lines 102-141, with init(configId), lines 70-98.
\* blankLoad: whether a frame just added to the document still delivers the
\* load event of its initial blank page after onload is assigned.
pollServerSessionRecur(s, e, loop, blankLoad) ==
  LET configId == loop.configId
      e1 == [e EXCEPT !.begun = TRUE]
  IN IF s.lastRefresh + iframeRefreshInterval > now
     THEN Tick(s, e1, loop)                                  \* of(undefined)
     ELSE IF ReadWellKnown(configId) = "absent"
     THEN [s |-> s, e |-> e1]                                \* of(): no emission
     ELSE LET created  == ~s.iframe.exists
              s1       == getOrCreateIframe(s, configId)
              url      == CheckSessionIframeOf(configId)
              navigate == url # <<>>
          IN [ s |-> [s1 EXCEPT !.iframe.loading =
                                   IF navigate THEN TRUE
                                   ELSE IF created THEN blankLoad ELSE @,
                                 !.iframe.onload = <<loop>>,
                                 !.iframe.open = TRUE],
               e |-> [e1 EXCEPT !.navigated = navigate, !.created = created] ]

\* a pollServerSession that keeps the count of outstanding messages
pollServerSessionKeepingCount(s, e, clientId, configId, blankLoad) ==
  pollServerSessionRecur(s, e, [clientId |-> clientId, configId |-> configId], blankLoad)

\* pollServerSession(clientId, configId), lines 100-144
pollServerSession(s, e, clientId, configId, blankLoad) ==
  pollServerSessionRecur([s EXCEPT !.outstanding = 0], e,
                         [clientId |-> clientId, configId |-> configId], blankLoad)

\* start(configId), lines 43-50: the call on line 49 passes (configId, clientId)
\* to the parameters (clientId, configId)
start(s, e, configId, blankLoad) ==
  IF s.handle # NoHandle
  THEN [s |-> s, e |-> e]
  ELSE pollServerSession(s, e, configId, ClientIdOf(configId), blankLoad)

\* a clearScheduledHeartBeat that drops the handle without clearTimeout
forgetScheduledHeartBeat(s) == [s EXCEPT !.handle = NoHandle]

\* clearScheduledHeartBeat(), lines 146-149
clearScheduledHeartBeat(s) ==
  [s EXCEPT !.timers = {t \in @ : t.id # s.handle}, !.handle = NoHandle]

\* stop(), lines 52-59
stop(s) ==
  IF s.handle = NoHandle
  THEN s
  ELSE [clearScheduledHeartBeat(s) EXCEPT !.received = FALSE]

\* property reads of a value that may be a string: undefined on a string
OriginOf(v) == IF v.type = "event" THEN v.origin ELSE UndefinedStr
SourceOf(v) == IF v.type = "event" THEN v.source ELSE "undefined"
DataOf(v)   == IF v.type = "event" THEN v.data ELSE "undefined"

\* the storage key a value denotes: a string is its own key, an event object
\* is the key of no configuration
KeyOf(v) == IF v.type = "string" THEN v.str ELSE "[object MessageEvent]"

\* a messageHandler that reads the payload without validating origin and source
messageHandlerPayloadFirst(s, ef, e, configId) ==
  LET s1 == [s EXCEPT !.outstanding = 0]
  IN IF DataOf(e) = "changed"
     THEN [s |-> [s1 EXCEPT !.received = TRUE, !.published = TRUE],
           e |-> [ef EXCEPT !.events = Append(@, DataOf(e)),
                            !.nexts = Append(@, TRUE)]]
     ELSE [s |-> s1, e |-> ef]

\* messageHandler(e, configId), lines 151-169
messageHandler(s, ef, e, configId) ==
  LET existingIFrame == s.iframe.exists
      url            == CheckSessionIframeOf(KeyOf(configId))
      startsWith     == url # <<>> /\ StartsWith(url, OriginOf(e))
      s1             == [s EXCEPT !.outstanding = 0]
  IN IF existingIFrame /\ startsWith /\ SourceOf(e) = "contentWindow"
     THEN IF DataOf(e) = "error"
          THEN [s |-> s1, e |-> ef]
          ELSE IF DataOf(e) = "changed"
          THEN [s |-> [s1 EXCEPT !.received = TRUE, !.published = TRUE],
                e |-> [ef EXCEPT !.events = Append(@, DataOf(e)),
                                 !.nexts = Append(@, TRUE)]]
          ELSE [s |-> s1, e |-> [ef EXCEPT !.events = Append(@, DataOf(e))]]
     ELSE [s |-> s1, e |-> ef]

\* the listener registered on line 173 is messageHandler.bind(this, configId):
\* the window calls it with the event, so messageHandler receives
\* (configId, event) for its parameters (e, configId)
iframeMessageEvent(s, ef, bound, event) == messageHandler(s, ef, JsString(bound), event)

\* the window dispatches a message event to every registered listener in turn
RECURSIVE Dispatch(_, _, _, _)
Dispatch(s, ef, ls, event) ==
  IF ls = <<>> THEN [s |-> s, e |-> ef]
  ELSE LET r == iframeMessageEvent(s, ef, Head(ls), event)
       IN Dispatch(r.s, r.e, Tail(ls), event)

\* ------------------------------------------------------------- history
\* a message is validly sourced for tenant t: the frame exists, the origin is
\* a prefix of t's session-check endpoint and the source is the frame's window
ValidFor(event, t) ==
  /\ iframe.exists
  /\ CheckSessionIframeOf(t) # <<>>
  /\ StartsWith(CheckSessionIframeOf(t), event.origin)
  /\ event.source = "contentWindow"

\* refreshed: Date.now() at the last location.replace, -1 before the first
NoHistory == [ticks |-> 0, allSent |-> TRUE, inbound |-> "none", refreshed |-> -1]

\* a fresh start forgets the ticks and messages, not the navigations
AfterFreshStart(h) == [NoHistory EXCEPT !.refreshed = h.refreshed]

\* a tick ran: count it, and remember whether every tick so far sent a probe;
\* the frame was navigated: remember when
AfterStep(h, e) ==
  LET h1 == IF e.navigated THEN [h EXCEPT !.refreshed = now] ELSE h
  IN IF e.ticked
     THEN [h1 EXCEPT !.ticks = @ + 1, !.allSent = @ /\ e.probe # <<>>]
     ELSE h1

\* a message arrived: remember the strongest kind seen
AfterMessage(h, valid, event) ==
  IF ~valid THEN h
  ELSE IF event.data = "changed" THEN [h EXCEPT !.inbound = "changed"]
  ELSE IF h.inbound = "none" THEN [h EXCEPT !.inbound = "valid"]
  ELSE h

\* ------------------------------------------------------------- actions
Commit(s) ==
  /\ checkSessionReceived' = s.received
  /\ scheduledHeartBeatRunning' = s.handle
  /\ lastIFrameRefresh' = s.lastRefresh
  /\ outstandingMessages' = s.outstanding
  /\ checkSessionChangedInternal' = s.published
  /\ iframe' = s.iframe
  /\ listeners' = s.listeners
  /\ timers' = s.timers

Start(t) ==
  \E blankLoad \in BOOLEAN :
    LET r == start(Current, Quiet("start", t), t, blankLoad)
    IN /\ Commit(r.s)
       /\ out' = r.e
       /\ running' = running \cup {t}
       /\ hist' = AfterStep(IF running = {} THEN AfterFreshStart(hist) ELSE hist, r.e)
       /\ UNCHANGED <<now, config, storage>>

Stop ==
  /\ Commit(stop(Current))
  /\ out' = Quiet("stop", "")
  /\ running' = {}
  /\ UNCHANGED <<now, config, storage, hist>>

\* a pending timer is due: zone.run(pollServerSessionRecur), line 138
TimerFire ==
  \E t \in timers : \E blankLoad \in BOOLEAN :
    /\ t.due <= now
    /\ LET r == pollServerSessionRecur([Current EXCEPT !.timers = @ \ {t}],
                                       Quiet("timer", t.loop.clientId), t.loop, blankLoad)
       IN Commit(r.s) /\ out' = r.e /\ hist' = AfterStep(hist, r.e)
    /\ UNCHANGED <<now, config, storage, running>>

\* the iframe finished loading: existingIframe.onload, lines 92-96
IframeLoad ==
  /\ iframe.exists /\ iframe.loading /\ iframe.onload # <<>>
  /\ LET s0 == [Current EXCEPT !.iframe.loading = FALSE, !.iframe.open = FALSE,
                                !.lastRefresh = now]
         e0 == Quiet("load", iframe.onload[1].clientId)
         r  == IF iframe.open THEN Tick(s0, e0, iframe.onload[1]) ELSE [s |-> s0, e |-> e0]
     IN Commit(r.s) /\ out' = r.e /\ hist' = AfterStep(hist, r.e)
  /\ UNCHANGED <<now, config, storage, running>>

\* a message event arrives at the window
Deliver(event) ==
  /\ listeners # <<>>
  /\ LET r == Dispatch(Current, Quiet("message", ""), listeners, event)
     IN Commit(r.s) /\ out' = [r.e EXCEPT !.data = event.data,
                                        !.sourced = \E t \in Tenants : ValidFor(event, t)]
  /\ hist' = AfterMessage(hist, \E t \in Tenants : ValidFor(event, t), event)
  /\ UNCHANGED <<now, config, storage, running>>

Message == \E event \in MessageEvents : Deliver(event)

\* messageHandler called with its parameters in the declared order
Handle(event, t) ==
  /\ LET r == messageHandler(Current, Quiet("handler", ""), event, JsString(t))
     IN Commit(r.s) /\ out' = [r.e EXCEPT !.data = event.data,
                                        !.sourced = ValidFor(event, t)]
  /\ hist' = AfterMessage(hist, ValidFor(event, t), event)
  /\ UNCHANGED <<now, config, storage, running>>

HandleMessage == \E event \in MessageEvents : \E t \in Tenants : Handle(event, t)

\* time passes: by a heartbeat interval while a scheduled tick is not yet due,
\* or by a whole refresh interval at any moment (an idle service, a slow load)
Elapsed == now - StartNow

AdvanceTime ==
  /\ \/ /\ Elapsed < MaxAdvances * heartBeatInterval
        /\ \E t \in timers : t.due > now
        /\ now' = now + heartBeatInterval
     \/ /\ Elapsed < MaxLongWaits * iframeRefreshInterval
        /\ now' = now + iframeRefreshInterval
  /\ out' = Quiet("time", "")
  /\ UNCHANGED <<checkSessionReceived, scheduledHeartBeatRunning, lastIFrameRefresh,
                 outstandingMessages, checkSessionChangedInternal, iframe, listeners,
                 timers, config, storage, running, hist>>

\* ------------------------------------------------------------- specification
\* clientId values: one that is also a configuration identifier, one that is not
ClientIds == {"t1", OtherClientId}

\* session checking is enabled for t1 and disabled for t2; no two
\* configurations share a clientId
Configs == { c \in [Tenants -> [startCheckSession : BOOLEAN, clientId : ClientIds]] :
               /\ \A t \in Tenants : c[t].startCheckSession = (t = "t1")
               /\ \A t, u \in Tenants : c[t].clientId = c[u].clientId => t = u }

\* what is stored under t1 varies (a session state is stored only after the
\* endpoints); t2 has its endpoints and session state
Storages == { st \in [Tenants -> [wellKnown : {"absent", "noUrl", "url"}, session : BOOLEAN]] :
                /\ st["t2"] = [wellKnown |-> "url", session |-> TRUE]
                /\ st["t1"].session => st["t1"].wellKnown # "absent" }

Init ==
  /\ checkSessionReceived = FALSE
  /\ scheduledHeartBeatRunning = NoHandle
  /\ lastIFrameRefresh = 0
  /\ outstandingMessages = 0
  /\ checkSessionChangedInternal = FALSE
  /\ iframe = [exists |-> FALSE, loading |-> FALSE, onload |-> <<>>, open |-> FALSE]
  /\ listeners = <<>>
  /\ timers = {}
  /\ now = StartNow
  /\ config \in Configs
  /\ storage \in Storages
  /\ running = {}
  /\ hist = NoHistory
  /\ out = Quiet("init", "")

Next ==
  \/ \E t \in Tenants : Start(t)
  \/ Stop
  \/ TimerFire
  \/ IframeLoad
  \/ Message
  \/ AdvanceTime

Spec == Init /\ [][Next]_vars

\* the service with messages handed to messageHandler(e, configId) as declared
NextHandler ==
  \/ \E t \in Tenants : Start(t)
  \/ Stop
  \/ TimerFire
  \/ IframeLoad
  \/ HandleMessage
  \/ AdvanceTime

SpecHandler == Init /\ [][NextHandler]_vars

\* ------------------------------------------------------------- properties
\* the fields of the service and the objects it owns
ProgVars == <<checkSessionReceived, scheduledHeartBeatRunning, lastIFrameRefresh,
              outstandingMessages, checkSessionChangedInternal, iframe, listeners, timers>>

\* C1: a second start(t) between a start(t) and the next stop() has no
\* additional effect: the service state (outstandingProbes, timers, the
\* waiting tick) is unchanged and the call navigates nothing, schedules no
\* timer and sends no probe, also before the first tick's load has completed.
C1_SecondStartNoEffect ==
  [][\A t \in Tenants :
       (t \in running /\ Start(t)) =>
         /\ UNCHANGED ProgVars
         /\ ~out'.navigated /\ ~out'.scheduled /\ out'.probe = <<>>]_vars

\* C2: after stop() and until the next start() no heartbeat tick begins or
\* runs and no probe is sent.
C2_NoTickAfterStop ==
  running = {} => (~out.begun /\ ~out.ticked /\ out.probe = <<>>)

C4_ForeignOriginNoMutation ==
  [][\A event \in MessageEvents :
       ( /\ \A t \in Tenants : ~StartsWith(CheckSessionIframeOf(t), event.origin)
         /\ Deliver(event) ) =>
         UNCHANGED <<running, outstandingMessages, checkSessionReceived,
                     checkSessionChangedInternal>>]_vars

\* C5: with session checking enabled for t, a 'changed' message validly
\* sourced for t that arrives through the registered listener makes
\* hasSessionChanged(t) true and outstandingProbes 0.
C5_ListenerAcceptsChanged ==
  [][\A event \in MessageEvents : \A t \in Tenants :
       ( /\ config[t].startCheckSession
         /\ event.data = "changed"
         /\ ValidFor(event, t)
         /\ Deliver(event) ) =>
         (checkSessionReceived' /\ outstandingMessages' = 0)]_vars

\* C6: a tick that begins while the monitor is running leads to the next
\* tick: when it has begun, the next tick is scheduled or the tick waits for
\* the channel to load.
C6_TickReschedules ==
  (out.begun /\ running # {}) =>
    (out.scheduled \/ (iframe.open /\ iframe.onload # <<>>))

\* C7: a heartbeat tick never publishes ChangeEvent(true).
C7_TickNeverPublishes ==
  out.ticked => out.nexts = <<>>

\* C8: while every tick since the start sent a probe and no valid inbound
\* message arrived, a tick reports UnreachableServer exactly when it is the
\* 4th or a later tick; messages that fail validation do not affect this.
C8_ReportFromFourthTick ==
  (out.ticked /\ hist.allSent /\ hist.inbound = "none") =>
    (out.unreachable <=> hist.ticks >= 4)

\* C9: a probe sent for a tenant whose clientId differs from its identifier
\* carries that tenant's clientId, a space and that tenant's session state,
\* and is addressed to the origin of that tenant's session-check endpoint.
\* (out.arg is the identifier start() was called with.)
C9_ProbeOfTenant ==
  (out.probe # <<>> /\ ClientIdOf(out.arg) # out.arg) =>
    /\ out.probe = <<ClientIdOf(out.arg), " ", ReadSessionState(out.arg)>>
    /\ out.target = UrlOrigin(CheckSessionIframeOf(out.arg))

\* C10: the published value never goes from true to false within a cycle,
\* and a fresh start() (none running) resets it to false.
C10_MonotonicAndResetByStart ==
  [][ /\ (\E t \in Tenants : running = {} /\ Start(t)) => ~checkSessionChangedInternal'
      /\ (~(\E t \in Tenants : running = {} /\ Start(t)) /\ checkSessionChangedInternal)
           => checkSessionChangedInternal' ]_vars

\* C11: a validly sourced message whose payload is not 'changed' sets
\* outstandingProbes to 0, leaves hasSessionChanged and the published value
\* as they were, and emits no notification for 'error' and one notification
\* carrying the raw payload for any other payload.
C11_ValidOtherPayload ==
  [][\A event \in MessageEvents : \A t \in Tenants :
       ( /\ event.data # "changed"
         /\ ValidFor(event, t)
         /\ Deliver(event) ) =>
         /\ outstandingMessages' = 0
         /\ UNCHANGED <<checkSessionReceived, checkSessionChangedInternal>>
         /\ out'.nexts = <<>>
         /\ out'.events = IF event.data = "error" THEN <<>> ELSE <<event.data>>]_vars

\* C12: start(B) for a tenant B that is not running, while another tenant is
\* running, begins B's heartbeat loop and leaves the other tenant's
\* outstandingProbes and sessionChangeReceived unchanged.
C12_PerTenantState ==
  [][\A t \in Tenants :
       (t \notin running /\ running # {} /\ Start(t)) =>
         /\ out'.begun
         /\ UNCHANGED <<outstandingMessages, checkSessionReceived>>]_vars

\* C13: stop() while running changes only the timer and the local flag, after
\* it hasSessionChanged(t) is false for every tenant, and the published value
\* is unchanged; stop() while not running changes nothing.
C13_StopFrame ==
  [][Stop =>
       /\ UNCHANGED <<lastIFrameRefresh, outstandingMessages,
                      checkSessionChangedInternal, iframe, listeners>>
       /\ running # {} => \A t \in Tenants : ~(config[t].startCheckSession /\ checkSessionReceived')
       /\ running = {} => UNCHANGED ProgVars]_vars

\* C14: a message delivered after stop() and before the next start() changes
\* neither sessionChangeReceived nor outstandingProbes, publishes nothing and
\* emits no notification, whatever its origin, source and payload.
C14_NoOpAfterStop ==
  [][\A event \in MessageEvents :
       (running = {} /\ Deliver(event)) =>
         /\ UNCHANGED <<checkSessionReceived, outstandingMessages,
                        checkSessionChangedInternal>>
         /\ out'.nexts = <<>> /\ out'.events = <<>>]_vars

\* C15: a message with payload 'changed' that is not validly sourced (its
\* origin is no prefix of the tenant's endpoint, or its source is not the
\* frame's window, or no frame exists) does not set sessionChangeReceived,
\* publishes nothing and emits no notification.
C15_ValidationBeforePayload ==
  [][(out'.op = "handler" /\ out'.data = "changed" /\ ~out'.sourced) =>
       /\ UNCHANGED <<checkSessionReceived, checkSessionChangedInternal>>
       /\ out'.nexts = <<>> /\ out'.events = <<>>]_vars

\* a 'changed' message that was not validly sourced was handed to
\* messageHandler while a frame exists
C15_Witness ==
  /\ out.op = "handler" /\ out.data = "changed" /\ ~out.sourced
  /\ iframe.exists /\ ~checkSessionReceived

\* C16: the frame is navigated to the endpoint at most once per
\* iframeRefreshInterval: when a step navigates it, no earlier navigation lies
\* less than iframeRefreshInterval back; and a tick that begins inside the
\* cool-down window does not navigate.
C16_RefreshAtMostOncePerInterval ==
  [][ /\ out'.navigated =>
           (hist.refreshed = -1 \/ now - hist.refreshed >= iframeRefreshInterval)
      /\ (out'.begun /\ lastIFrameRefresh + iframeRefreshInterval > now) =>
           ~out'.navigated ]_vars

\* C17: the message listener is registered once per created frame: there are
\* as many listeners as frames created, a step registers a listener exactly
\* when it creates the frame, and a refresh of an existing frame registers
\* none; so a message is handled at most once.
C17_OneListenerPerFrame ==
  [][ /\ Len(listeners) = (IF iframe.exists THEN 1 ELSE 0)
      /\ Len(listeners') = (IF iframe'.exists THEN 1 ELSE 0)
      /\ Len(listeners') = Len(listeners) + (IF out'.created THEN 1 ELSE 0)
      /\ (out'.navigated /\ ~out'.created) => listeners' = listeners ]_vars

\* an existing frame was refreshed after its cool-down
C17_Witness ==
  /\ out.navigated /\ ~out.created /\ hist.ticks >= 1
  /\ Len(listeners) = 1

\* C18: at most one heartbeat loop is live: the ticks pending on a timer and
\* the tick waiting for the frame to load are at most one in total.
C18_OneLoop ==
  Cardinality(timers) + (IF iframe.open /\ iframe.onload # <<>> THEN 1 ELSE 0) <= 1

\* a start() began a loop while the loop of another tenant was live
C18_Witness ==
  /\ out.op = "start" /\ out.begun /\ running = Tenants
  /\ iframe.open /\ iframe.onload # <<>>

\* C19: outstandingProbes counts the probes sent since the later of the last
\* effective start() and the last message handed to the handler: such a step
\* sets it to 0, a probe adds exactly one, nothing else changes it.
C19_OutstandingCountsProbes ==
  [][ outstandingMessages' =
        (IF (out'.op = "start" /\ out'.begun) \/ out'.op \in {"message", "handler"}
         THEN 0 ELSE outstandingMessages)
        + (IF out'.probe # <<>> THEN 1 ELSE 0) ]_vars

\* the second probe in a row without a message in between
C19_Witness ==
  /\ out.ticked /\ out.probe # <<>> /\ outstandingMessages = 2

====
